---- MODULE Spec2Model ----
(***************************************************************************)
(* A model of richter's rendering core:                                    *)
(*   src/src/math.rs   -- Mat4 (multiplication, identity, rotations,       *)
(*                        translation)                                     *)
(*   src/src/engine.rs -- the lazily initialised PALETTE and               *)
(*                        tex_from_indexed                                 *)
(*                                                                         *)
(* MathSpec applies the Mat4 operations to inputs drawn from bounded sets. *)
(* Spec runs threads that call tex_from_indexed against a palette file.    *)
(***************************************************************************)
EXTENDS Integers, Sequences, FiniteSets, TLC

VARIABLES
    \* ---- math.rs: the inputs and the result of the last Mat4 operation
    mA, mB,      \* two arbitrary matrices
    pt,          \* a triple (x, y, z) of coordinates
    theta,       \* an angle, in eighths of a turn (theta * PI / 4)
    mop,         \* the operation applied last ("none" before any)
    lhs, rhs,    \* the operands of the last multiplication
    res          \* the matrix the last operation returned

mathVars == <<mA, mB, pt, theta, mop, lhs, rhs, res>>

VARIABLES
    \* ---- engine.rs: the palette file, the lazy static and the calling threads
    file,             \* pak0/gfx/palette.lmp: [kind, len, seed]
    overflow_checks,  \* whether the build panics on integer overflow
    once,             \* the state of PALETTE's one-time initialisation
    PALETTE,          \* the value of the lazy static (<<>> until initialised)
    loads,            \* how many times the initialiser has opened the file
    th                \* per thread: its call of tex_from_indexed

engineVars == <<file, overflow_checks, once, PALETTE, loads, th>>

vars == <<mathVars, engineVars>>

(***************************************************************************)
(* f32 values.  The values the model computes with are elements of the     *)
(* field Q(sqrt 2), in which the sines and cosines of all multiples of     *)
(* PI/4 are exact: <<a, b, d>> stands for (a + b * sqrt 2) / d, with       *)
(* d > 0 and gcd(a, b, d) = 1.                                             *)
(***************************************************************************)
Abs(n) == IF n < 0 THEN -n ELSE n

RECURSIVE GCD(_, _)
GCD(m, n) == IF n = 0 THEN m ELSE GCD(n, m % n)

Norm(a, b, d) ==
    LET g == GCD(GCD(Abs(a), Abs(b)), d)
    IN  <<a \div g, b \div g, d \div g>>

F32(n) == <<n, 0, 1>>

Zero == F32(0)
One  == F32(1)

NAdd(x, y) == Norm(x[1] * y[3] + y[1] * x[3], x[2] * y[3] + y[2] * x[3], x[3] * y[3])

NMul(x, y) == Norm(x[1] * y[1] + 2 * x[2] * y[2], x[1] * y[2] + x[2] * y[1], x[3] * y[3])

NNeg(x) == <<-x[1], -x[2], x[3]>>

\* sqrt(2) / 2
HalfRoot2 == <<0, 1, 2>>

\* theta.sin() and theta.cos() for theta = k * PI / 4
Sin(k) ==
    CASE k % 8 = 0 -> Zero
      [] k % 8 = 1 -> HalfRoot2
      [] k % 8 = 2 -> One
      [] k % 8 = 3 -> HalfRoot2
      [] k % 8 = 4 -> Zero
      [] k % 8 = 5 -> NNeg(HalfRoot2)
      [] k % 8 = 6 -> NNeg(One)
      [] k % 8 = 7 -> NNeg(HalfRoot2)

Cos(k) == Sin(k + 2)

(***************************************************************************)
(* Mat4: [[f32; 4]; 4].  Source index n is model index n + 1.              *)
(***************************************************************************)
Idx == 1..4

\* A plausible slip: the textbook row-by-column product.
MulRowByColumn(self, other) ==
    [i \in Idx |-> [j \in Idx |->
        NAdd(NAdd(NAdd(NAdd(Zero,
            NMul(self[i][1], other[1][j])),
            NMul(self[i][2], other[2][j])),
            NMul(self[i][3], other[3][j])),
            NMul(self[i][4], other[4][j]))]]

\* A plausible slip: the accumulator overwritten instead of added to.
MulLastTerm(self, other) ==
    [i \in Idx |-> [j \in Idx |-> NMul(self[4][j], other[i][4])]]

\* impl Mul for Mat4: result[i][j] += self[k][j] * rhs[i][k], k = 0..3
Mul(self, other) ==
    [i \in Idx |-> [j \in Idx |->
        NAdd(NAdd(NAdd(NAdd(Zero,
            NMul(self[1][j], other[i][1])),
            NMul(self[2][j], other[i][2])),
            NMul(self[3][j], other[i][3])),
            NMul(self[4][j], other[i][4]))]]

identity ==
    <<  <<One,  Zero, Zero, Zero>>,
        <<Zero, One,  Zero, Zero>>,
        <<Zero, Zero, One,  Zero>>,
        <<Zero, Zero, Zero, One>>  >>

rotation_x(t) ==
    LET s == Sin(t)
        c == Cos(t)
    IN  <<  <<One,  Zero,    Zero, Zero>>,
            <<Zero, c,       s,    Zero>>,
            <<Zero, NNeg(s), c,    Zero>>,
            <<Zero, Zero,    Zero, One>>  >>

rotation_y(t) ==
    LET s == Sin(t)
        c == Cos(t)
    IN  <<  <<c,       Zero, s,    Zero>>,
            <<Zero,    One,  Zero, Zero>>,
            <<NNeg(s), Zero, c,    Zero>>,
            <<Zero,    Zero, Zero, One>>  >>

\* A plausible slip: the minus sign on the sine left out.
rotation_z_unsigned(t) ==
    LET s == Sin(t)
        c == Cos(t)
    IN  <<  <<c,    s,    Zero, Zero>>,
            <<s,    c,    Zero, Zero>>,
            <<Zero, Zero, One,  Zero>>,
            <<Zero, Zero, Zero, One>>  >>

rotation_z(t) ==
    LET s == Sin(t)
        c == Cos(t)
    IN  <<  <<c,       s,    Zero, Zero>>,
            <<NNeg(s), c,    Zero, Zero>>,
            <<Zero,    Zero, One,  Zero>>,
            <<Zero,    Zero, Zero, One>>  >>

translation(x, y, z) ==
    <<  <<One,  Zero, Zero, Zero>>,
        <<Zero, One,  Zero, Zero>>,
        <<Zero, Zero, One,  Zero>>,
        <<x,    y,    z,    One>>  >>

(***************************************************************************)
(* engine.rs.                                                              *)
(***************************************************************************)
PaletteLen == 768          \* [u8; 768]
Sentinel   == 255          \* 0xff
Limb       == 65536        \* a u32 is two 16-bit limbs <<high, low>>

NumThreads == 2      \* threads calling tex_from_indexed concurrently
MaxPixels  == 2      \* the longest index list
MaxSeed    == 2      \* how many different file contents
MaxCalls   == 2      \* calls one thread makes one after the other

Threads == 1..NumThreads

\* The thread of the sequential specification.
Main == CHOOSE t \in Threads : \A u \in Threads : t <= u

\* Byte k (from 1) of a palette file: every seed gives different colours.
FileByte(f, k) == (f.seed * 37 * k + k \div 3 + f.seed) % 256

\* pak0/gfx/palette.lmp: absent, unreadable, or a regular file of some length
Files ==
    {[kind |-> "missing", len |-> 0, seed |-> 0], [kind |-> "unreadable", len |-> 0, seed |-> 0],
     [kind |-> "regular", len |-> 0, seed |-> 0]}
    \cup {[kind |-> "regular", len |-> len, seed |-> 1] : len \in {PaletteLen - 1, PaletteLen + 1}}
    \cup {[kind |-> "regular", len |-> PaletteLen, seed |-> seed] : seed \in 1..MaxSeed}

Pixels == {0, 254, Sentinel}

RECURSIVE SeqsUpTo(_, _)
SeqsUpTo(S, n) ==
    IF n = 0 THEN {<<>>}
    ELSE LET shorter == SeqsUpTo(S, n - 1)
         IN  shorter \cup {Append(q, x) : q \in {r \in shorter : Len(r) = n - 1}, x \in S}

Images == SeqsUpTo(Pixels, MaxPixels)

(***************************************************************************)
(* u32.  A value is <<high, low>>, two 16-bit limbs, so that the products  *)
(* of the model stay below 2^31.                                           *)
(***************************************************************************)
ToU32(n) == <<n \div Limb, n % Limb>>

\* The 32-bit product of two 16-bit limbs, by the bytes of x.
Mul16(x, y) ==
    LET p1  == (x \div 256) * y
        p0  == (x % 256) * y
        low == (p1 % 256) * 256 + p0
    IN  <<p1 \div 256 + low \div Limb, low % Limb>>

\* The high limb of a * b before it is cut to 16 bits.
HighSum(a, b) == Mul16(a[2], b[2])[1] + Mul16(a[1], b[2])[2] + Mul16(a[2], b[1])[2]

\* width * height in a build without overflow checks
WrappingMul(a, b) == <<HighSum(a, b) % Limb, Mul16(a[2], b[2])[2]>>

\* whether width * height does not fit a u32
MulOverflows(a, b) ==
    \/ a[1] # 0 /\ b[1] # 0
    \/ Mul16(a[1], b[2])[1] # 0
    \/ Mul16(a[2], b[1])[1] # 0
    \/ HighSum(a, b) >= Limb

\* (width, height): small shapes, and two whose u32 product wraps (to 0 and to 1).
Dims ==
    {<<ToU32(w), ToU32(1)>> : w \in 0..MaxPixels}
        \cup {<<ToU32(65536), ToU32(65536)>>, <<ToU32(641), ToU32(6700417)>>}

Zeros(n) == [k \in 1..n |-> 0]

NoCall ==
    [pc |-> "idle", indices |-> <<>>, width |-> ToU32(0), height |-> ToU32(0), i |-> 0,
     rgba |-> <<>>, buf |-> <<>>, n |-> 0, err |-> <<"none">>, calls |-> 0]

EngineIdle ==
    /\ file = [kind |-> "missing", len |-> 0, seed |-> 0]
    /\ overflow_checks = FALSE
    /\ once = "incomplete"
    /\ PALETTE = <<>>
    /\ loads = 0
    /\ th = [t \in Threads |-> NoCall]

MathIdle ==
    /\ mA = identity
    /\ mB = identity
    /\ pt = <<0, 0, 0>>
    /\ theta = 0
    /\ mop = "none"
    /\ lhs = identity
    /\ rhs = identity
    /\ res = identity

Init ==
    /\ MathIdle
    /\ file \in Files
    /\ overflow_checks \in BOOLEAN
    /\ once = "incomplete"
    /\ PALETTE = <<>>
    /\ loads = 0
    /\ th = [t \in Threads |-> NoCall]

\* panic!: the thread unwinds; its buffers are dropped.
Panicked(s, why) == [s EXCEPT !.pc = "panicked", !.err = why, !.rgba = <<>>, !.buf = <<>>]

\* A plausible slip: only a list that is too short is refused.
TooShort(n, w, h) == WrappingMul(w, h)[1] # 0 \/ n < WrappingMul(w, h)[2]

\* indices.len() != (width * height) as usize
BadLength(n, w, h) == ToU32(n) # WrappingMul(w, h)

\* tex_from_indexed is entered: the length check
Call(t, ind, w, h) ==
    /\ th[t].pc = "idle"
    /\ LET s == [th[t] EXCEPT !.indices = ind, !.width = w, !.height = h, !.calls = @ + 1]
       IN  th' = [th EXCEPT ![t] =
                IF overflow_checks /\ MulOverflows(w, h)
                    THEN Panicked(s, <<"attempt to multiply with overflow">>)
                ELSE IF BadLength(Len(ind), w, h)
                    THEN Panicked(s, <<"Bad index list length", Len(ind)>>)
                ELSE [s EXCEPT !.pc = "loop", !.i = 0]]
    /\ UNCHANGED <<file, overflow_checks, once, PALETTE, loads>>
    /\ UNCHANGED mathVars

\* A plausible slip: the last palette slot but one taken for the sentinel too.
IsSentinelOrLast(b) == b >= Sentinel - 1

IsSentinel(b) == b = Sentinel

\* A plausible slip: index and channel exchanged.
PaletteIndexSwapped(idx, c) == 3 * c + idx

\* (3 * (indices[i] as usize) + c) as usize
PaletteIndex(idx, c) == 3 * idx + c

\* The pixel the loop is at (indices[i], source index i is model index i + 1).
AtPixel(s) == s.pc = "loop" /\ s.i < Len(s.indices)
Current(s) == s.indices[s.i + 1]

\* the else branch: four zero bytes
SentinelPixel(t) ==
    /\ AtPixel(th[t])
    /\ IsSentinel(Current(th[t]))
    /\ th' = [th EXCEPT ![t] = [@ EXCEPT !.rgba = @ \o <<0, 0, 0, 0>>, !.i = @ + 1]]
    /\ UNCHANGED <<file, overflow_checks, once, PALETTE, loads>>
    /\ UNCHANGED mathVars

\* A plausible slip: no exclusion while another thread runs the initialiser.
MayInitializeUnguarded(o) == o \in {"incomplete", "running"}

\* Once::call_once runs the initialiser only from the INCOMPLETE state.
MayInitialize(o) == o = "incomplete"

\* The first dereference of PALETTE: this thread becomes the initialiser.
BeginInit(t) ==
    /\ AtPixel(th[t])
    /\ ~IsSentinel(Current(th[t]))
    /\ MayInitialize(once)
    /\ once' = "running"
    /\ th' = [th EXCEPT ![t] = [@ EXCEPT !.pc = "init_open"]]
    /\ UNCHANGED <<file, overflow_checks, PALETTE, loads>>
    /\ UNCHANGED mathVars

\* A dereference of PALETTE after a panic of the initialiser panics as well.
DerefPoisoned(t) ==
    /\ AtPixel(th[t])
    /\ ~IsSentinel(Current(th[t]))
    /\ once = "poisoned"
    /\ th' = [th EXCEPT ![t] = Panicked(@, <<"Once instance has previously been poisoned">>)]
    /\ UNCHANGED <<file, overflow_checks, once, PALETTE, loads>>
    /\ UNCHANGED mathVars

\* let mut _palette = [0; 768]; File::open(..).unwrap()
InitOpen(t) ==
    /\ th[t].pc = "init_open"
    /\ loads' = loads + 1
    /\ IF file.kind = "missing"
         THEN /\ once' = "poisoned"
              /\ th' = [th EXCEPT ![t] = Panicked(@, <<"unwrap on Err: No such file">>)]
         ELSE /\ once' = once
              /\ th' = [th EXCEPT ![t] = [@ EXCEPT !.pc = "init_read", !.buf = Zeros(PaletteLen)]]
    /\ UNCHANGED <<file, overflow_checks, PALETTE>>
    /\ UNCHANGED mathVars

Min(a, b) == IF a < b THEN a ELSE b

\* f.read(&mut _palette): at most 768 bytes of the file go into the buffer
InitRead(t) ==
    /\ th[t].pc = "init_read"
    /\ LET got == Min(file.len, PaletteLen)
       IN  th' = [th EXCEPT ![t] =
                IF file.kind = "unreadable"
                    THEN [@ EXCEPT !.pc = "init_match", !.n = -1]
                    ELSE [@ EXCEPT !.pc = "init_match", !.n = got,
                            !.buf = [k \in 1..PaletteLen |->
                                        IF k <= got THEN FileByte(file, k) ELSE @[k]]]]
    /\ UNCHANGED <<file, overflow_checks, once, PALETTE, loads>>
    /\ UNCHANGED mathVars

\* match: Err(why) => panic, Ok(768) => _palette, _ => panic
InitMatch(t) ==
    /\ th[t].pc = "init_match"
    /\ IF th[t].n = -1
         THEN /\ once' = "poisoned"
              /\ PALETTE' = PALETTE
              /\ th' = [th EXCEPT ![t] = Panicked(@, <<"read error">>)]
       ELSE IF th[t].n = PaletteLen
         THEN /\ once' = "complete"
              /\ PALETTE' = th[t].buf
              /\ th' = [th EXCEPT ![t] = [@ EXCEPT !.pc = "loop", !.buf = <<>>]]
         ELSE /\ once' = "poisoned"
              /\ PALETTE' = PALETTE
              /\ th' = [th EXCEPT ![t] = Panicked(@, <<"Bad read on pak0/gfx/palette.lmp">>)]
    /\ UNCHANGED <<file, overflow_checks, loads>>
    /\ UNCHANGED mathVars

\* the if branch: three palette bytes, then 0xff
ColourPixel(t) ==
    /\ AtPixel(th[t])
    /\ ~IsSentinel(Current(th[t]))
    /\ once = "complete"
    /\ LET idx == Current(th[t])
       IN  th' = [th EXCEPT ![t] = [@ EXCEPT
                !.rgba = @ \o << PALETTE[PaletteIndex(idx, 0) + 1],
                                 PALETTE[PaletteIndex(idx, 1) + 1],
                                 PALETTE[PaletteIndex(idx, 2) + 1],
                                 255 >>,
                !.i = @ + 1]]
    /\ UNCHANGED <<file, overflow_checks, once, PALETTE, loads>>
    /\ UNCHANGED mathVars

\* RawImage2d::from_raw_rgba, Texture2d::new(..).unwrap(): the upload succeeds
Upload(t) ==
    /\ th[t].pc = "loop"
    /\ th[t].i = Len(th[t].indices)
    /\ th' = [th EXCEPT ![t] = [@ EXCEPT !.pc = "returned"]]
    /\ UNCHANGED <<file, overflow_checks, once, PALETTE, loads>>
    /\ UNCHANGED mathVars

\* Texture2d::new(..).unwrap(): the graphics context refuses the texture
UploadFails(t) ==
    /\ th[t].pc = "loop"
    /\ th[t].i = Len(th[t].indices)
    /\ th' = [th EXCEPT ![t] = Panicked(@, <<"unwrap on Err: texture creation">>)]
    /\ UNCHANGED <<file, overflow_checks, once, PALETTE, loads>>
    /\ UNCHANGED mathVars

\* The caller goes on to its next texture.
Reenter(t) ==
    /\ th[t].pc = "returned"
    /\ th[t].calls < MaxCalls
    /\ th' = [th EXCEPT ![t] = [NoCall EXCEPT !.calls = th[t].calls]]
    /\ UNCHANGED <<file, overflow_checks, once, PALETTE, loads>>
    /\ UNCHANGED mathVars

\* What the concurrent threads decode: all sentinel, one colour, a colour
\* before a sentinel, a list of the wrong length, a shape that overflows.
ConcurrentCalls ==
    {<< <<Sentinel>>, ToU32(1), ToU32(1) >>,
     << <<0>>, ToU32(1), ToU32(1) >>,
     << <<254, Sentinel>>, ToU32(2), ToU32(1) >>,
     << <<0>>, ToU32(2), ToU32(1) >>,
     << <<>>, ToU32(65536), ToU32(65536) >>}

\* Threads, each making one call of tex_from_indexed, in any interleaving.
Next ==
    \/ \E t \in Threads, c \in ConcurrentCalls : Call(t, c[1], c[2], c[3])
    \/ \E t \in Threads : SentinelPixel(t)
    \/ \E t \in Threads : BeginInit(t)
    \/ \E t \in Threads : DerefPoisoned(t)
    \/ \E t \in Threads : InitOpen(t)
    \/ \E t \in Threads : InitRead(t)
    \/ \E t \in Threads : InitMatch(t)
    \/ \E t \in Threads : ColourPixel(t)
    \/ \E t \in Threads : Upload(t)
    \/ \E t \in Threads : UploadFails(t)

Spec == Init /\ [][Next]_vars

\* One thread, making up to MaxCalls calls with every image and shape.
DecodeNext ==
    \/ \E ind \in Images, d \in Dims : Call(Main, ind, d[1], d[2])
    \/ SentinelPixel(Main)
    \/ BeginInit(Main)
    \/ InitOpen(Main)
    \/ InitRead(Main)
    \/ InitMatch(Main)
    \/ ColourPixel(Main)
    \/ Upload(Main)
    \/ UploadFails(Main)
    \/ Reenter(Main)

DecodeSpec == Init /\ [][DecodeNext]_vars

(***************************************************************************)
(* The inputs of MathSpec.                                                 *)
(***************************************************************************)
MaxGen   == 4      \* how many generic matrices
MaxTurn  == 4      \* angles run over -MaxTurn..MaxTurn eighths of a turn
MaxCoord == 3      \* coordinates of pt run over multiples up to MaxCoord

\* A generic matrix: small integers, every row and column different.
GenMat(n) ==
    [i \in Idx |-> [j \in Idx |-> F32(((n * (4 * (i - 1) + j) + i * i + n * j * j) % 5) - 2)]]

Mats == {GenMat(n) : n \in 1..MaxGen} \cup {rotation_x(1), translation(F32(1), F32(2), F32(3))}

Angles == (-MaxTurn)..MaxTurn

Coords == {<<0, 0, 0>>, <<1, 0, 0>>, <<0, 1, 0>>, <<0, 0, 1>>, <<-1, 2, -2>>}
            \cup {<<n, 2 * n, 3 * n>> : n \in 1..(MaxCoord - 2)}

MathInit ==
    /\ EngineIdle
    /\ mA \in Mats
    /\ mB \in Mats
    /\ pt \in Coords
    /\ theta \in Angles
    /\ mop = "none"
    /\ lhs = identity
    /\ rhs = identity
    /\ res = identity

Multiply(name, x, y) ==
    /\ mop = "none"
    /\ mop' = name
    /\ lhs' = x
    /\ rhs' = y
    /\ res' = Mul(x, y)
    /\ UNCHANGED <<mA, mB, pt, theta>>
    /\ UNCHANGED engineVars

Construct(name, m) ==
    /\ mop = "none"
    /\ mop' = name
    /\ res' = m
    /\ UNCHANGED <<mA, mB, pt, theta, lhs, rhs>>
    /\ UNCHANGED engineVars

MulAB            == Multiply("mul", mA, mB)
MulIdentityLeft  == Multiply("mul_identity_left", identity, mA)
MulIdentityRight == Multiply("mul_identity_right", mA, identity)
MulRotZInverse   == Multiply("mul_rz_inverse", rotation_z(theta), rotation_z(-theta))
MulInverseRotZ   == Multiply("mul_inverse_rz", rotation_z(-theta), rotation_z(theta))
MulTranslation   ==
    Multiply("mul_translation", translation(F32(pt[1]), F32(pt[2]), F32(pt[3])), identity)
MakeRotationX    == Construct("rotation_x", rotation_x(theta))
MakeRotationY    == Construct("rotation_y", rotation_y(theta))
MakeRotationZ    == Construct("rotation_z", rotation_z(theta))
MakeTranslation  == Construct("translation", translation(F32(pt[1]), F32(pt[2]), F32(pt[3])))

MathNext ==
    \/ MulAB
    \/ MulIdentityLeft
    \/ MulIdentityRight
    \/ MulRotZInverse
    \/ MulInverseRotZ
    \/ MulTranslation
    \/ MakeRotationX
    \/ MakeRotationY
    \/ MakeRotationZ
    \/ MakeTranslation

MathSpec == MathInit /\ [][MathNext]_vars

(***************************************************************************)
(* Properties of Mat4 (MathSpec).                                          *)
(***************************************************************************)
\* The point (x, y, z, 1).
Point(c) == <<F32(c[1]), F32(c[2]), F32(c[3]), One>>

\* m applied to the point p: p'[j] = sum over k of m[k][j] * p[k].
Apply(m, p) ==
    [j \in Idx |->
        NAdd(NAdd(NAdd(NMul(m[1][j], p[1]), NMul(m[2][j], p[2])),
                  NMul(m[3][j], p[3])), NMul(m[4][j], p[4]))]

Multiplied ==
    mop \in {"mul", "mul_identity_left", "mul_identity_right", "mul_rz_inverse",
             "mul_inverse_rz", "mul_translation"}

\* C1: (A * B) applied to a point is A applied to (B applied to the point),
\* for every product the operations form and every point; and
\* translation(x, y, z), alone or composed with the identity, sends the
\* origin to (x, y, z).
C1_ComposesRightFirst ==
    /\ Multiplied =>
        \A c \in Coords : Apply(res, Point(c)) = Apply(lhs, Apply(rhs, Point(c)))
    /\ mop \in {"translation", "mul_translation"} =>
        Apply(res, Point(<<0, 0, 0>>)) = Point(pt)

\* C1's case: two matrices that do not commute, and a point their product moves.
C1_Witness ==
    /\ mop = "mul"
    /\ Mul(lhs, rhs) # Mul(rhs, lhs)
    /\ Apply(res, Point(pt)) # Point(pt)
    /\ Apply(res, Point(pt)) = Apply(lhs, Apply(rhs, Point(pt)))

\* C6: a positive quarter turn about x sends +y to +z, about y sends +z to
\* +x, and about z sends +x to +y.
C6_RightHandedRotations ==
    (Sin(theta) = One /\ Cos(theta) = Zero) =>
        /\ mop = "rotation_x" => Apply(res, Point(<<0, 1, 0>>)) = Point(<<0, 0, 1>>)
        /\ mop = "rotation_y" => Apply(res, Point(<<0, 0, 1>>)) = Point(<<1, 0, 0>>)
        /\ mop = "rotation_z" => Apply(res, Point(<<1, 0, 0>>)) = Point(<<0, 1, 0>>)

\* C7: identity() * M = M and M * identity() = M, cell for cell.
C7_IdentityNeutral ==
    Multiplied =>
        /\ lhs = identity => res = rhs
        /\ rhs = identity => res = lhs

\* C7's case: a matrix other than the identity multiplied by it, on each side.
C7_Witness ==
    /\ mop \in {"mul_identity_left", "mul_identity_right"}
    /\ mA # identity
    /\ res = mA

\* C8: rotation_z(theta) * rotation_z(-theta) = identity(), in either order.
C8_RotZInverse ==
    /\ mop = "mul_rz_inverse" =>
        lhs = rotation_z(theta) /\ rhs = rotation_z(-theta) /\ res = identity
    /\ mop = "mul_inverse_rz" =>
        lhs = rotation_z(-theta) /\ rhs = rotation_z(theta) /\ res = identity

\* C8's case: an eighth of a turn, whose sine and cosine are sqrt(2) / 2.
C8_Witness ==
    /\ mop = "mul_rz_inverse"
    /\ Sin(theta) = HalfRoot2
    /\ Cos(theta) = HalfRoot2
    /\ lhs # rhs
    /\ res = identity

(***************************************************************************)
(* Properties of the palette and of tex_from_indexed.                      *)
(***************************************************************************)
\* Byte n (from 0) of the buffer b.
At(b, n) == b[n + 1]

\* Whether the list holds a pixel that is looked up in the palette.
HasColour(ind) == \E k \in 1..Len(ind) : ind[k] # 255

\* C2: with a palette loaded from a 768-byte source S, the buffer of a call
\* that returned holds, for pixel k, (0, 0, 0, 0) when the pixel is 0xFF and
\* (S[3i], S[3i + 1], S[3i + 2], 255) when it is any other index i.
C2_DecodedPixels ==
    \A t \in Threads :
        (th[t].pc = "returned" /\ file.kind = "regular" /\ file.len = 768) =>
            /\ Len(th[t].rgba) = 4 * Len(th[t].indices)
            /\ \A k \in 0..(Len(th[t].indices) - 1) :
                LET px == At(th[t].indices, k)
                    out == [c \in 0..3 |-> At(th[t].rgba, 4 * k + c)]
                IN  IF px = 255
                        THEN out = [c \in 0..3 |-> 0]
                        ELSE out = [c \in 0..3 |->
                                IF c = 3 THEN 255 ELSE FileByte(file, 3 * px + c + 1)]

\* C2's case: a returned image with the highest colour index before a sentinel.
C2_Witness ==
    /\ th[Main].pc = "returned"
    /\ th[Main].indices = <<254, 255>>
    /\ file.len = 768
    /\ Len(th[Main].rgba) = 8

\* Whether the list's length is the mathematical product width * height.
LengthIsProduct(s) ==
    ~MulOverflows(s.width, s.height) /\ WrappingMul(s.width, s.height) = ToU32(Len(s.indices))

\* C3: a call whose list length is not the mathematical product
\* width * height fails with the length-mismatch error, which reports the
\* length, and produces no buffer.
C3_MismatchAlwaysRefused ==
    \A t \in Threads :
        (th[t].pc # "idle" /\ ~LengthIsProduct(th[t])) =>
            /\ th[t].pc = "panicked"
            /\ th[t].err = <<"Bad index list length", Len(th[t].indices)>>
            /\ th[t].rgba = <<>>

\* C4: a source of any length other than 768 bytes never yields a palette.
C4_OnlyExactLengthLoads ==
    (file.kind = "regular" /\ file.len # 768) => (once # "complete" /\ PALETTE = <<>>)

\* C5: the file is loaded at most once, and the palette any thread can read
\* is either absent or the whole table: all 768 bytes of the source, after
\* the initialisation has completed; the colours a thread has emitted are
\* those of the source.
C5_LoadedOnce ==
    /\ loads <= 1
    /\ PALETTE # <<>> =>
        /\ once = "complete"
        /\ Len(PALETTE) = 768
        /\ \A k \in 1..768 : PALETTE[k] = FileByte(file, k)
    /\ \A t \in Threads :
        \A k \in 0..(th[t].i - 1) :
            (th[t].pc \in {"loop", "returned"} /\ At(th[t].indices, k) # 255) =>
                /\ once = "complete"
                /\ \A c \in 0..2 :
                    At(th[t].rgba, 4 * k + c) = FileByte(file, 3 * At(th[t].indices, k) + c + 1)

\* C5's case: one thread is reading the file while another waits at its
\* first access to the palette.
C5_Witness ==
    \E t, u \in Threads :
        /\ t # u
        /\ th[t].pc = "init_read"
        /\ th[u].pc = "loop"
        /\ th[u].i < Len(th[u].indices)
        /\ At(th[u].indices, th[u].i) # 255
        /\ once = "running"

\* C9 as stated: once a call has returned, the palette has been loaded.
C9_EveryCallLoads ==
    \A t \in Threads : th[t].pc = "returned" => once = "complete"

\* C9 amended: once a call with a pixel other than 0xFF has returned, the
\* palette has been loaded; a first call without such a pixel returns with
\* the palette not loaded and the file never opened.
C9_ColourCallLoads ==
    \A t \in Threads :
        th[t].pc = "returned" =>
            /\ HasColour(th[t].indices) => (once = "complete" /\ PALETTE # <<>> /\ loads = 1)
            /\ (~HasColour(th[t].indices) /\ th[t].calls = 1) =>
                    (once = "incomplete" /\ PALETTE = <<>> /\ loads = 0)

\* C9's case: the first call has returned an image with a colour pixel.
C9_Witness ==
    /\ th[Main].pc = "returned"
    /\ th[Main].calls = 1
    /\ HasColour(th[Main].indices)
    /\ once = "complete"

\* C10: a call that fails the length check fails with the length-mismatch
\* error and changes nothing of the palette's initialisation, whatever the
\* palette file is.
C10_LengthCheckFirst ==
    [][\A t \in Threads :
        ( /\ th[t].pc = "idle"
          /\ th'[t].pc # "idle"
          /\ ~(overflow_checks /\ MulOverflows(th'[t].width, th'[t].height))
          /\ WrappingMul(th'[t].width, th'[t].height) # ToU32(Len(th'[t].indices)) )
        => ( /\ th'[t].pc = "panicked"
             /\ th'[t].err = <<"Bad index list length", Len(th'[t].indices)>>
             /\ once' = once
             /\ PALETTE' = PALETTE
             /\ loads' = loads )]_vars

\* C10's case: the length check has failed with the palette file missing
\* and the palette never touched.
C10_Witness ==
    /\ th[Main].pc = "panicked"
    /\ th[Main].err = <<"Bad index list length", 2>>
    /\ file.kind = "missing"
    /\ once = "incomplete"
    /\ loads = 0

====
